---- MODULE Spec2Model ----
(***************************************************************************)
(* ConnectionQuest: the session-and-matching engine.                       *)
(*                                                                         *)
(* The state is the relational store (game_sessions, session_participants, *)
(* questions, user_answers) plus the handler calls in flight and the last  *)
(* HTTP response.  Each action is one handler of server/routes.ts, or one  *)
(* awaited storage statement of a handler whose statements can interleave  *)
(* with other requests.                                                    *)
(***************************************************************************)
EXTENDS Integers, Sequences, FiniteSets, Bags, TLC

(* ------------------------------ bounds --------------------------------- *)
\* registered users (users.id)
NumUsers == 3
\* game_sessions rows ever created (game_sessions.id is a serial)
MaxSessions == 1
\* session_participants rows plus joinSession calls in flight
MaxJoins == 3
\* user_answers rows
MaxAnswers == 2
\* answers in the list of one submitAnswers request
MaxSubmit == 1
\* vouchers rows
MaxVouchers == 2

Users == 1..NumUsers
\* the codes nanoid(6).toUpperCase() can produce, cut down to two
Codes == {"AB12CD", "ZZ99ZZ"}

\* SQL NULL in game_sessions.match_percentage
Null == -1

VARIABLES
    gameSessions,        \* table game_sessions: row id |-> [sessionCode, completed, matchPercentage]
    sessionParticipants, \* table session_participants: bag of [sessionId, userId]
    joinCalls,           \* joinSession calls in flight: bag of [pc, sessionCode, userId, route]
    submitCalls,         \* submitAnswers calls in flight: bag of [userId, sessionCode, answers]
    resultsCalls,        \* results requests about to generate a voucher: bag of [sessionCode, result]
    questions,           \* table questions: question id |-> questionType
    userAnswers,         \* table user_answers: bag of [userId, sessionId, questionId, selectedOptionId]
    couponTemplates,     \* table coupon_templates: row id |-> template
    vouchers,            \* table vouchers: row id |-> voucher
    reply                \* the response of the handler that finished last

vars == <<gameSessions, sessionParticipants, joinCalls, submitCalls, resultsCalls, questions,
          userAnswers, couponTemplates, vouchers, reply>>

\* the tables and calls the session registry handlers leave alone
otherTables == <<submitCalls, resultsCalls, questions, userAnswers, couponTemplates, vouchers>>

NoReply == [op |-> "none"]

(* --------------------------- storage reads ----------------------------- *)
\* storage.getGameSessionByCode: the ids of the rows with that code
\* (session_code is unique, so none or one)
getGameSessionByCode(code) ==
    {id \in DOMAIN gameSessions : gameSessions[id].sessionCode = code}

\* the rows of session_participants for one session
ParticipantRows(sessionId) ==
    {r \in BagToSet(sessionParticipants) : r.sessionId = sessionId}

RECURSIVE SumCopies(_, _)
SumCopies(B, rows) ==
    IF rows = {} THEN 0
    ELSE LET r == CHOOSE x \in rows : TRUE
         IN  CopiesIn(r, B) + SumCopies(B, rows \ {r})

\* SELECT count(*) FROM session_participants WHERE session_id = sessionId
participantCount(sessionId) ==
    SumCopies(sessionParticipants, ParticipantRows(sessionId))

\* storage.getSessionParticipants mapped to user ids (the set of them)
getSessionParticipants(sessionId) ==
    {r.userId : r \in ParticipantRows(sessionId)}

\* a readiness test that takes two or more rows for a full session
isSessionCompleteAtLeast(sessionId) == participantCount(sessionId) >= 2

\* storage.isSessionComplete
isSessionComplete(sessionId) == participantCount(sessionId) = 2

\* gameService.isSessionReady
isSessionReady(sessionCode) ==
    LET session == getGameSessionByCode(sessionCode)
    IN  IF session = {} THEN FALSE
        ELSE isSessionComplete(CHOOSE id \in session : TRUE)

(* ------------------------------ joining -------------------------------- *)
\* a capacity test that lets a third participant in
joinDecisionOverTwo(isParticipant, length) ==
    IF isParticipant THEN "true"
    ELSE IF length > 2 THEN "false"
    ELSE "insert"

\* The decision joinSession takes from what it has read: "false", "true"
\* (already a participant) or "insert" (go on to addParticipantToSession).
joinDecision(isParticipant, length) ==
    IF isParticipant THEN "true"
    ELSE IF length >= 2 THEN "false"
    ELSE "insert"

\* gameService.joinSession up to its last await, on the current tables
joinSession(sessionCode, userId) ==
    LET session == getGameSessionByCode(sessionCode)
    IN  IF session = {} THEN "false"
        ELSE LET id == CHOOSE i \in session : TRUE
             IN  joinDecision(userId \in getSessionParticipants(id),
                              participantCount(id))

\* POST /api/sessions/join: the response for a joinSession result
JoinResponse(joined) ==
    IF joined
    THEN [status |-> 200, error |-> ""]
    ELSE [status |-> 404, error |-> "Session not found or full"]

\* inserted is bookkeeping: whether the call added a membership row
JoinReply(userId, sessionCode, joined, inserted) ==
    [op |-> "join", userId |-> userId, sessionCode |-> sessionCode,
     status |-> JoinResponse(joined).status,
     error |-> JoinResponse(joined).error, inserted |-> inserted]

\* storage.addParticipantToSession: INSERT INTO session_participants; the
\* primary key (session_id, user_id) rejects a row that is already there
PrimaryKeyViolation(row) == BagIn(row, sessionParticipants)

\* the insert into a table without the primary key
addParticipantToSessionNoKey(row) == sessionParticipants (+) SetToBag({row})

addParticipantToSession(row) ==
    IF PrimaryKeyViolation(row) THEN sessionParticipants
    ELSE sessionParticipants (+) SetToBag({row})

\* membership rows plus joinSession calls in flight
InFlight == BagCardinality(sessionParticipants) + BagCardinality(joinCalls)

CreateReply(userId, sessionCode, status) ==
    [op |-> "create", userId |-> userId, sessionCode |-> sessionCode,
     status |-> status,
     error |-> IF status = 201 THEN "" ELSE "Failed to create game session"]

\* POST /api/sessions/create, up to the return of gameService.createSession:
\* nanoid picks the code, the insert fails on a code that is taken
\* (session_code is unique); otherwise the handler goes on to joinSession
CreateSession(userId, sessionCode) ==
    /\ InFlight < MaxJoins
    /\ IF getGameSessionByCode(sessionCode) # {}
       THEN /\ reply' = CreateReply(userId, sessionCode, 500)
            /\ UNCHANGED <<gameSessions, joinCalls>>
       ELSE /\ Len(gameSessions) < MaxSessions
            /\ gameSessions' = Append(gameSessions,
                   [sessionCode |-> sessionCode, completed |-> FALSE,
                    matchPercentage |-> Null])
            /\ joinCalls' = joinCalls (+) SetToBag({[pc |-> "read",
                   sessionCode |-> sessionCode, userId |-> userId,
                   route |-> "create"]})
            /\ reply' = NoReply
    /\ UNCHANGED <<sessionParticipants, otherTables>>

\* POST /api/sessions/create, the reads of its joinSession call: the handler
\* ignores the boolean and answers 201 unless the call goes on to insert
CreatorJoinRead(call) ==
    /\ BagIn(call, joinCalls)
    /\ call.pc = "read"
    /\ IF joinSession(call.sessionCode, call.userId) = "insert"
       THEN /\ joinCalls' = (joinCalls (-) SetToBag({call}))
                              (+) SetToBag({[call EXCEPT !.pc = "insert"]})
            /\ reply' = NoReply
       ELSE /\ joinCalls' = joinCalls (-) SetToBag({call})
            /\ reply' = CreateReply(call.userId, call.sessionCode, 201)
    /\ UNCHANGED <<gameSessions, sessionParticipants, otherTables>>

\* POST /api/sessions/join, up to the last await of joinSession: the session
\* lookup, the participant read and the two checks
JoinRequest(userId, sessionCode) ==
    /\ LET decision == joinSession(sessionCode, userId)
       IN  IF decision = "insert"
           THEN /\ InFlight < MaxJoins
                /\ joinCalls' = joinCalls (+) SetToBag({[pc |-> "insert",
                       sessionCode |-> sessionCode, userId |-> userId,
                       route |-> "join"]})
                /\ reply' = NoReply
           ELSE /\ joinCalls' = joinCalls
                /\ reply' = JoinReply(userId, sessionCode, decision = "true", FALSE)
    /\ UNCHANGED <<gameSessions, sessionParticipants, otherTables>>

\* the insert of a joinSession call and the handler's response; a rejected
\* insert throws, which both handlers answer with 500
AddParticipant(call) ==
    /\ BagIn(call, joinCalls)
    /\ call.pc = "insert"
    /\ LET id  == CHOOSE i \in getGameSessionByCode(call.sessionCode) : TRUE
           row == [sessionId |-> id, userId |-> call.userId]
       IN  /\ sessionParticipants' = addParticipantToSession(row)
           /\ reply' =
                IF PrimaryKeyViolation(row)
                THEN [op |-> call.route, userId |-> call.userId,
                      sessionCode |-> call.sessionCode, status |-> 500,
                      error |-> IF call.route = "join"
                                THEN "Failed to join game session"
                                ELSE "Failed to create game session",
                      inserted |-> FALSE]
                ELSE IF call.route = "join"
                     THEN JoinReply(call.userId, call.sessionCode, TRUE, TRUE)
                     ELSE CreateReply(call.userId, call.sessionCode, 201)
    /\ joinCalls' = joinCalls (-) SetToBag({call})
    /\ UNCHANGED <<gameSessions, otherTables>>

\* GET /api/sessions/:code/status
SessionStatus(sessionCode) ==
    /\ reply' = [op |-> "status", sessionCode |-> sessionCode,
                 status |-> 200, ready |-> isSessionReady(sessionCode)]
    /\ UNCHANGED <<gameSessions, sessionParticipants, joinCalls, otherTables>>

JoinCallSet ==
    [pc : {"read", "insert"}, sessionCode : Codes, userId : Users,
     route : {"create", "join"}]

Init ==
    /\ gameSessions = <<>>
    /\ sessionParticipants = EmptyBag
    /\ joinCalls = EmptyBag
    /\ submitCalls = EmptyBag
    /\ resultsCalls = EmptyBag
    /\ questions = <<>>
    /\ userAnswers = EmptyBag
    /\ couponTemplates = <<>>
    /\ vouchers = <<>>
    /\ reply = NoReply

Next ==
    \/ \E u \in Users, c \in Codes : CreateSession(u, c)
    \/ \E call \in JoinCallSet : CreatorJoinRead(call)
    \/ \E u \in Users, c \in Codes : JoinRequest(u, c)
    \/ \E call \in JoinCallSet : AddParticipant(call)
    \/ \E c \in Codes : SessionStatus(c)

Spec == Init /\ [][Next]_vars

(* ------------------------------ catalog -------------------------------- *)
\* table question_options: option id |-> row; the first two questions of
\* db/seed.ts with two options each
questionOptions ==
    << [questionId |-> 1, optionText |-> "Beach"],
       [questionId |-> 1, optionText |-> "Mountains"],
       [questionId |-> 2, optionText |-> "Italian"],
       [questionId |-> 2, optionText |-> "Asian"] >>

QuestionText ==
    << "What's your favorite travel destination?",
       "What's your favorite cuisine?",
       "What's your ideal date night?",
       "What's your favorite way to relax?",
       "What's your favorite color?",
       "What quality do you value most in a relationship?",
       "What's your partner's biggest strength?" >>

QuestionRow(id, type) == [text |-> QuestionText[id], questionType |-> type]

\* the question tables the admin console can have set up
Catalogs ==
    { << QuestionRow(1, "common") >>,
      << QuestionRow(1, "individual") >>,
      << QuestionRow(1, "common"), QuestionRow(2, "common") >>,
      << QuestionRow(1, "common"), QuestionRow(2, "individual") >> }

\* storage.getQuestions(type), as question ids
getQuestions(type) ==
    {q \in DOMAIN questions : questions[q].questionType = type}

\* storage.getQuestions(), as question ids
getAllQuestions == DOMAIN questions

(* ------------------------------ answers -------------------------------- *)
\* storage.getSessionAnswers: the rows of user_answers for one session
getSessionAnswers(sessionId) ==
    {r \in BagToSet(userAnswers) : r.sessionId = sessionId}

\* SELECT user_id, count(*) ... WHERE session_id = sessionId GROUP BY user_id:
\* the users with rows, and each one's count
answeringUsers(sessionId) == {r.userId : r \in getSessionAnswers(sessionId)}

answerCount(sessionId, userId) ==
    SumCopies(userAnswers,
              {r \in getSessionAnswers(sessionId) : r.userId = userId})

\* storage.hasUserSubmittedAnswers
hasUserSubmittedAnswers(sessionId, userId) == answerCount(sessionId, userId) > 0

\* storage.areAllAnswersSubmitted
areAllAnswersSubmitted(sessionId) ==
    IF participantCount(sessionId) < 2 THEN FALSE
    ELSE IF Cardinality(getAllQuestions) = 0 THEN FALSE
    ELSE IF Cardinality(answeringUsers(sessionId)) < participantCount(sessionId)
         THEN FALSE
    ELSE \A u \in answeringUsers(sessionId) :
             ~(answerCount(sessionId, u) < Cardinality(getAllQuestions))

\* the payloads a client sends: an option of the question it was shown
AnswerPayloads ==
    {a \in [questionId : DOMAIN questions, optionId : DOMAIN questionOptions] :
        questionOptions[a.optionId].questionId = a.questionId}

AnswerLists == UNION {[1..n -> AnswerPayloads] : n \in 0..MaxSubmit}

\* the loop of gameService.submitAnswers: one storage.saveUserAnswer
\* (a plain INSERT) per answer of the list
RECURSIVE saveUserAnswers(_, _, _, _)
saveUserAnswers(table, userId, sessionId, answers) ==
    IF answers = <<>> THEN table
    ELSE saveUserAnswers(
             table (+) SetToBag({[userId |-> userId, sessionId |-> sessionId,
                                  questionId |-> Head(answers).questionId,
                                  selectedOptionId |-> Head(answers).optionId]}),
             userId, sessionId, Tail(answers))

\* the foreign keys of a user_answers row: question_id references questions,
\* selected_option_id references question_options
foreignKeysHold(answer) ==
    /\ answer.questionId \in DOMAIN questions
    /\ answer.optionId \in DOMAIN questionOptions

\* the answers of a list that submitAnswers saves: the loop stops at the
\* first insert that throws, the rows before it stay
RECURSIVE savedAnswers(_)
savedAnswers(answers) ==
    IF answers = <<>> THEN <<>>
    ELSE IF ~foreignKeysHold(Head(answers)) THEN <<>>
    ELSE <<Head(answers)>> \o savedAnswers(Tail(answers))

\* POST /api/sessions/:code/answers for a code that matches no session:
\* submitAnswers throws before it reads the list
SubmitAnswersUnknown(sessionCode) ==
    /\ getGameSessionByCode(sessionCode) = {}
    /\ reply' = [op |-> "answers", status |-> 500,
                 error |-> "Failed to submit answers"]
    /\ UNCHANGED <<gameSessions, sessionParticipants, joinCalls, submitCalls, resultsCalls, questions,
                   userAnswers, couponTemplates, vouchers>>

\* POST /api/sessions/:code/answers for the code of a session, while the
\* table holds no more than limit rows
SubmitAnswersWithin(userId, sessionCode, answers, limit) ==
    /\ getGameSessionByCode(sessionCode) # {}
    /\ BagCardinality(userAnswers) + Len(answers) <= limit
    /\ userAnswers' = saveUserAnswers(userAnswers, userId,
                          CHOOSE id \in getGameSessionByCode(sessionCode) : TRUE,
                          savedAnswers(answers))
    /\ reply' = IF Len(savedAnswers(answers)) = Len(answers)
                THEN [op |-> "answers", status |-> 200, error |-> ""]
                ELSE [op |-> "answers", status |-> 500,
                      error |-> "Failed to submit answers"]
    /\ UNCHANGED <<gameSessions, sessionParticipants, joinCalls, submitCalls, resultsCalls, questions,
                   couponTemplates, vouchers>>

SubmitAnswers(userId, sessionCode, answers) ==
    SubmitAnswersWithin(userId, sessionCode, answers, MaxAnswers)

\* GET /api/sessions/:code/results-status
ResultsStatus(sessionCode) ==
    /\ LET session == getGameSessionByCode(sessionCode)
       IN  reply' =
             IF session = {}
             THEN [op |-> "results-status", sessionCode |-> sessionCode,
                   status |-> 404, ready |-> FALSE]
             ELSE LET id == CHOOSE i \in session : TRUE
                  IN  [op |-> "results-status", sessionCode |-> sessionCode,
                       status |-> 200,
                       ready |-> IF participantCount(id) < 2 THEN FALSE
                                 ELSE areAllAnswersSubmitted(id)]
    /\ UNCHANGED <<gameSessions, sessionParticipants, joinCalls, submitCalls, resultsCalls, questions,
                   userAnswers, couponTemplates, vouchers>>

(* ------------------------------ matching ------------------------------- *)
\* the common questions the game serves (earliest calculateMatches)
ServedCommonQuestions == 5
\* the results handlers' gates on the percentage for issuing a voucher
VoucherGate == 40
VoucherGateLatest == 50
\* Math.round(0 / 0)
NaN == -2

\* Math.round(num / den * 100) for den > 0: halves round up
MathRound(num, den) == (200 * num + den) \div (2 * den)

Min(a, b) == IF a < b THEN a ELSE b

\* the enumerations of a finite set: the orders a query without ORDER BY can
\* return its rows in
RECURSIVE Orderings(_)
Orderings(S) ==
    IF S = {} THEN {<<>>}
    ELSE UNION { {<<x>> \o rest : rest \in Orderings(S \ {x})} : x \in S }

\* storage.getSessionParticipants as calculateMatches reads it, participants[0]
\* first: the query has no ORDER BY, so either order
ParticipantOrders(sessionId) == Orderings(getSessionParticipants(sessionId))

\* Maps filled from the session's rows of any user
AnswerMapsAnyUser(sessionId, userId, questionIds) ==
    LET rows == {r \in getSessionAnswers(sessionId) : r.questionId \in questionIds}
        qs   == {r.questionId : r \in rows}
    IN  {m \in [qs -> DOMAIN questionOptions] :
            \A q \in qs : \E r \in rows :
                r.questionId = q /\ r.selectedOptionId = m[q]}

\* The Map questionId -> answer that calculateMatches fills for one user from
\* the session's rows whose question is in questionIds: Map.set keeps the row
\* returned last, so with several rows for a question any of them
AnswerMaps(sessionId, userId, questionIds) ==
    LET rows == {r \in getSessionAnswers(sessionId) :
                    r.userId = userId /\ r.questionId \in questionIds}
        qs   == {r.questionId : r \in rows}
    IN  {m \in [qs -> DOMAIN questionOptions] :
            \A q \in qs : \E r \in rows :
                r.questionId = q /\ r.selectedOptionId = m[q]}

answerText(optionId) == questionOptions[optionId].optionText
questionText(questionId) == questions[questionId].text

\* a comparison loop that does not skip the questions the second participant
\* left unanswered and lists them as non-matching
compareAnswersUnskipped(order, user1Answers, user2Answers) ==
    LET answered(q) == q \in DOMAIN user2Answers
        same(q)     == /\ answered(q)
                       /\ answerText(user1Answers[q]) = answerText(user2Answers[q])
        differ(q)   == ~same(q)
        matching    == SelectSeq(order, same)
        nonMatching == SelectSeq(order, differ)
    IN  [matchCount |-> Len(matching),
         matchingAnswers |->
            [i \in 1..Len(matching) |->
                [question |-> questionText(matching[i]),
                 answer |-> answerText(user1Answers[matching[i]])]],
         nonMatchingAnswers |->
            [i \in 1..Len(nonMatching) |->
                [question |-> questionText(nonMatching[i]),
                 yourAnswer |-> answerText(user1Answers[nonMatching[i]]),
                 partnerAnswer |->
                    IF answered(nonMatching[i])
                    THEN answerText(user2Answers[nonMatching[i]])
                    ELSE ""]]]

\* the comparison loop over user1Answers.entries(), in the Map's order
compareAnswers(order, user1Answers, user2Answers) ==
    LET same(q)     == answerText(user1Answers[q]) = answerText(user2Answers[q])
        differ(q)   == ~same(q)
        answered(q) == q \in DOMAIN user2Answers
        both        == SelectSeq(order, answered)
        matching    == SelectSeq(both, same)
        nonMatching == SelectSeq(both, differ)
    IN  [matchCount |-> Len(matching),
         matchingAnswers |->
            [i \in 1..Len(matching) |->
                [question |-> questionText(matching[i]),
                 answer |-> answerText(user1Answers[matching[i]])]],
         nonMatchingAnswers |->
            [i \in 1..Len(nonMatching) |->
                [question |-> questionText(nonMatching[i]),
                 yourAnswer |-> answerText(user1Answers[nonMatching[i]]),
                 partnerAnswer |-> answerText(user2Answers[nonMatching[i]])]]]

\* a percentage over the stored rows for the first participant's questions
\* instead of the entries of the Map
calculateMatchesPerRow(sessionId, order, user1Answers, user2Answers) ==
    LET c == compareAnswers(order, user1Answers, user2Answers)
        rowsAnswered ==
            SumCopies(userAnswers,
                      {r \in getSessionAnswers(sessionId) :
                          r.questionId \in DOMAIN user1Answers})
    IN  [matchPercentage |->
            IF rowsAnswered > 0
            THEN MathRound(c.matchCount, rowsAnswered)
            ELSE 0,
         matchingAnswers |-> c.matchingAnswers,
         nonMatchingAnswers |-> c.nonMatchingAnswers,
         sessionId |-> sessionId]

\* gameService.calculateMatches (common questions only) from the filled Maps
calculateMatches(sessionId, order, user1Answers, user2Answers) ==
    LET c == compareAnswers(order, user1Answers, user2Answers)
        commonQuestionsAnswered == Cardinality(DOMAIN user1Answers)
    IN  [matchPercentage |->
            IF commonQuestionsAnswered > 0
            THEN MathRound(c.matchCount, commonQuestionsAnswered)
            ELSE 0,
         matchingAnswers |-> c.matchingAnswers,
         nonMatchingAnswers |-> c.nonMatchingAnswers,
         sessionId |-> sessionId]

\* gameService.calculateMatches (all-questions variant) from the filled Maps
calculateMatchesAll(sessionId, order, user1Answers, user2Answers) ==
    LET c == compareAnswers(order, user1Answers, user2Answers)
        totalQuestions == Len(c.matchingAnswers) + Len(c.nonMatchingAnswers)
    IN  [matchPercentage |->
            IF totalQuestions > 0
            THEN MathRound(c.matchCount, totalQuestions)
            ELSE 0,
         matchingAnswers |-> c.matchingAnswers,
         nonMatchingAnswers |-> c.nonMatchingAnswers,
         sessionId |-> sessionId]

\* the MatchResults calculateMatches can return when storage lists the
\* participants in the order p, over the orders it can return the answers in
MatchResultsIn(sessionId, p) ==
    UNION { UNION {
        { calculateMatches(sessionId, order, m1, m2) :
            order \in Orderings(DOMAIN m1) } :
        m2 \in AnswerMaps(sessionId, p[2], getQuestions("common")) } :
        m1 \in AnswerMaps(sessionId, p[1], getQuestions("common")) }

\* the same for the all-questions variant
MatchResultsAllIn(sessionId, p) ==
    UNION { UNION {
        { calculateMatchesAll(sessionId, order, m1, m2) :
            order \in Orderings(DOMAIN m1) } :
        m2 \in AnswerMaps(sessionId, p[2], getAllQuestions) } :
        m1 \in AnswerMaps(sessionId, p[1], getAllQuestions) }

\* the MatchResults calculateMatches can return for a session with two
\* participants, over the orders storage can return rows in
MatchResults(sessionId) ==
    UNION { MatchResultsIn(sessionId, p) : p \in ParticipantOrders(sessionId) }

\* the same for the all-questions variant
MatchResultsAll(sessionId) ==
    UNION { MatchResultsAllIn(sessionId, p) : p \in ParticipantOrders(sessionId) }

\* gameService.calculateMatches (earliest variant): the rows grouped by
\* question, whoever wrote them; a common question with exactly two rows
\* counts as a match when the two answer texts are equal
questionAnswerCount(sessionId, questionId) ==
    SumCopies(userAnswers,
              {r \in getSessionAnswers(sessionId) : r.questionId = questionId})

earliestMatch(sessionId, questionId) ==
    /\ questionId \in getQuestions("common")
    /\ questionAnswerCount(sessionId, questionId) = 2
    /\ \A r1, r2 \in getSessionAnswers(sessionId) :
           (r1.questionId = questionId /\ r2.questionId = questionId)
           => answerText(r1.selectedOptionId) = answerText(r2.selectedOptionId)

\* the result from the matching questions in the order the Map yields them
calculateMatchesEarliest(sessionId, matching) ==
    LET totalCommonQuestions ==
            Min(Cardinality(getQuestions("common")), ServedCommonQuestions)
        theAnswer(q) ==
            answerText((CHOOSE r \in getSessionAnswers(sessionId) :
                           r.questionId = q).selectedOptionId)
    IN  [matchPercentage |->
            IF totalCommonQuestions = 0 THEN NaN
            ELSE MathRound(Len(matching), totalCommonQuestions),
         matchingAnswers |->
            [i \in 1..Len(matching) |->
                [question |-> questionText(matching[i]),
                 answer |-> theAnswer(matching[i])]],
         sessionId |-> sessionId]

\* the Map keeps the questions in the order storage returned their first
\* rows: any order of the matching ones
MatchResultsEarliest(sessionId) ==
    { calculateMatchesEarliest(sessionId, matching) :
        matching \in Orderings({q \in DOMAIN questions :
                                   earliestMatch(sessionId, q)}) }

(* ------------------------------ vouchers ------------------------------- *)
\* a selection that orders the thresholds ascending
getActiveCouponTemplateLowest(matchPercentage) ==
    LET fits == {t \in DOMAIN couponTemplates :
                    /\ couponTemplates[t].isActive
                    /\ couponTemplates[t].matchPercentageThreshold <= matchPercentage}
    IN  {t \in fits : \A t2 \in fits :
            couponTemplates[t].matchPercentageThreshold
                <= couponTemplates[t2].matchPercentageThreshold}

\* storage.getActiveCouponTemplate: the active templates whose threshold the
\* percentage reaches, highest threshold first; findFirst takes one of the top
getActiveCouponTemplate(matchPercentage) ==
    LET fits == {t \in DOMAIN couponTemplates :
                    /\ couponTemplates[t].isActive
                    /\ couponTemplates[t].matchPercentageThreshold <= matchPercentage}
    IN  {t \in fits : \A t2 \in fits :
            couponTemplates[t2].matchPercentageThreshold
                <= couponTemplates[t].matchPercentageThreshold}

\* tiers that start above 80 and above 60
defaultDiscountAbove(matchPercentage) ==
    IF matchPercentage > 80 THEN <<"30", "% OFF">>
    ELSE IF matchPercentage > 60 THEN <<"20", "% OFF">>
    ELSE <<"10", "% OFF">>

\* the built-in tiers of generateVoucher
defaultDiscount(matchPercentage) ==
    IF matchPercentage >= 80 THEN <<"30", "% OFF">>
    ELSE IF matchPercentage >= 60 THEN <<"20", "% OFF">>
    ELSE <<"10", "% OFF">>

\* nanoid(6) is taken to be fresh for every voucher
newVoucherCode == <<"MAWADHA-", Len(vouchers) + 1>>

\* gameService.generateVoucher: the rows it can insert
generateVoucher(sessionId, matchPercentage) ==
    IF getActiveCouponTemplate(matchPercentage) = {}
    THEN { [sessionId |-> sessionId, voucherCode |-> newVoucherCode,
            voucherType |-> "COUPLE'S DINNER",
            discount |-> defaultDiscount(matchPercentage),
            validity |-> <<3, "months">>, downloaded |-> FALSE] }
    ELSE { [sessionId |-> sessionId, voucherCode |-> newVoucherCode,
            voucherType |-> couponTemplates[t].name,
            discount |->
                IF couponTemplates[t].discountType = "percentage"
                THEN <<couponTemplates[t].discountValue, "% OFF">>
                ELSE <<couponTemplates[t].currency,
                       couponTemplates[t].discountValue, "OFF">>,
            validity |-> <<couponTemplates[t].validityDays, "days">>,
            downloaded |-> FALSE] :
           t \in getActiveCouponTemplate(matchPercentage) }

\* gameService.generateVoucher (earliest variant): the built-in tiers only
generateVoucherEarliest(sessionId, matchPercentage) ==
    { [sessionId |-> sessionId, voucherCode |-> newVoucherCode,
       voucherType |-> "COUPLE'S DINNER",
       discount |-> defaultDiscount(matchPercentage),
       validity |-> <<3, "months">>, downloaded |-> FALSE] }

\* storage.getVoucherBySessionId: findFirst, so any voucher of the session
getVoucherBySessionId(sessionId) ==
    {v \in DOMAIN vouchers : vouchers[v].sessionId = sessionId}

ResultsError(sessionCode, status, error) ==
    [op |-> "results", sessionCode |-> sessionCode, status |-> status,
     error |-> error]

\* the 200 response: the MatchResult and the voucher (0 for null);
\* calculator is bookkeeping, the calculateMatches that computed the result
ResultsReply(sessionCode, result, voucherId, calculator) ==
    [op |-> "results", sessionCode |-> sessionCode, status |-> 200,
     error |-> "", results |-> result, voucherId |-> voucherId,
     calculator |-> calculator]

\* db.update(gameSessions).set({matchPercentage, completed: true})
concludeSession(sessionId, matchPercentage) ==
    [gameSessions EXCEPT ![sessionId] =
        [@ EXCEPT !.matchPercentage = matchPercentage, !.completed = TRUE]]

\* a tail that calls generateVoucher whatever the percentage
IssueVoucherAlways(sessionCode, result, gate, rows, calculator) ==
    /\ Len(vouchers) < MaxVouchers
    /\ \E v \in rows :
           /\ vouchers' = Append(vouchers, v)
           /\ reply' = ResultsReply(sessionCode, result, Len(vouchers) + 1,
                                    calculator)

\* the tail of a results handler: generateVoucher when the gate is reached
IssueVoucher(sessionCode, result, gate, rows, calculator) ==
    IF result.matchPercentage >= gate
    THEN /\ Len(vouchers) < MaxVouchers
         /\ \E v \in rows :
                /\ vouchers' = Append(vouchers, v)
                /\ reply' = ResultsReply(sessionCode, result,
                                         Len(vouchers) + 1, calculator)
    ELSE /\ vouchers' = vouchers
         /\ reply' = ResultsReply(sessionCode, result, 0, calculator)

\* GET /api/sessions/:code/results (server/routes.ts) with calculateMatches
\* (common questions only)
Results(sessionCode) ==
    /\ LET session == getGameSessionByCode(sessionCode)
           id == CHOOSE i \in session : TRUE
       IN  IF session = {} \/ participantCount(id) # 2
           THEN /\ reply' = ResultsError(sessionCode, 404, "Results not available")
                /\ UNCHANGED <<gameSessions, vouchers>>
           ELSE \E result \in MatchResults(id) :
                    /\ gameSessions' = concludeSession(id, result.matchPercentage)
                    /\ IssueVoucher(sessionCode, result, VoucherGate,
                           generateVoucher(id, result.matchPercentage),
                           "common")
    /\ UNCHANGED <<sessionParticipants, joinCalls, submitCalls, resultsCalls, questions, userAnswers,
                   couponTemplates>>

\* GET /api/sessions/:code/results (latest routes) with calculateMatches
\* (all-questions variant), which does not update the session
ResultsGated(sessionCode) ==
    /\ LET session == getGameSessionByCode(sessionCode)
           id == CHOOSE i \in session : TRUE
       IN  IF session = {}
           THEN /\ reply' = ResultsError(sessionCode, 404, "Session not found")
                /\ vouchers' = vouchers
           ELSE IF ~areAllAnswersSubmitted(id)
           THEN /\ reply' = ResultsError(sessionCode, 400,
                       "Not all participants have submitted their answers")
                /\ vouchers' = vouchers
           ELSE IF participantCount(id) # 2
           THEN /\ reply' = ResultsError(sessionCode, 404, "Results not available")
                /\ vouchers' = vouchers
           ELSE \E result \in MatchResultsAll(id) :
                    IF /\ result.matchPercentage >= VoucherGateLatest
                       /\ getVoucherBySessionId(id) # {}
                    THEN /\ vouchers' = vouchers
                         /\ \E v \in getVoucherBySessionId(id) :
                                reply' = ResultsReply(sessionCode, result, v,
                                                      "all")
                    ELSE IssueVoucher(sessionCode, result, VoucherGateLatest,
                             generateVoucher(id, result.matchPercentage),
                             "all")
    /\ UNCHANGED <<gameSessions, sessionParticipants, joinCalls, submitCalls, resultsCalls, questions,
                   userAnswers, couponTemplates>>

\* GET /api/sessions/:code/results (earliest routes) with the earliest
\* calculateMatches; the integer column rejects NaN, so the update throws
ResultsEarliest(sessionCode) ==
    /\ LET session == getGameSessionByCode(sessionCode)
           id == CHOOSE i \in session : TRUE
       IN  IF session = {} \/ participantCount(id) # 2
           THEN /\ reply' = ResultsError(sessionCode, 404, "Results not available")
                /\ UNCHANGED <<gameSessions, vouchers>>
           ELSE \E result \in MatchResultsEarliest(id) :
                    IF result.matchPercentage = NaN
                    THEN /\ reply' = ResultsError(sessionCode, 500,
                                "Failed to calculate results")
                         /\ UNCHANGED <<gameSessions, vouchers>>
                    ELSE /\ gameSessions' = concludeSession(id, result.matchPercentage)
                         /\ IssueVoucher(sessionCode, result, VoucherGate,
                                generateVoucherEarliest(id, result.matchPercentage),
                                "earliest")
    /\ UNCHANGED <<sessionParticipants, joinCalls, submitCalls, resultsCalls, questions, userAnswers,
                   couponTemplates>>

\* a session created and joined by one, two or (through the join race) three
\* users, over each question table; no answers yet
InitMatch ==
    /\ gameSessions = << [sessionCode |-> "AB12CD", completed |-> FALSE,
                          matchPercentage |-> Null] >>
    /\ \E n \in 1..3 :
           sessionParticipants =
               SetToBag({[sessionId |-> 1, userId |-> u] : u \in 1..n})
    /\ joinCalls = EmptyBag
    /\ submitCalls = EmptyBag
    /\ resultsCalls = EmptyBag
    /\ questions \in Catalogs
    /\ userAnswers = EmptyBag
    /\ couponTemplates = <<>>
    /\ vouchers = <<>>
    /\ reply = NoReply

NextMatch ==
    \/ \E c \in Codes : SubmitAnswersUnknown(c)
    \/ \E u \in Users, c \in Codes, answers \in AnswerLists :
           SubmitAnswers(u, c, answers)
    \/ \E c \in Codes : SessionStatus(c)
    \/ \E c \in Codes : ResultsStatus(c)
    \/ \E c \in Codes : Results(c)
    \/ \E c \in Codes : ResultsGated(c)
    \/ \E c \in Codes : ResultsEarliest(c)

SpecMatch == InitMatch /\ [][NextMatch]_vars

(* -------------------------- coupon templates --------------------------- *)
\* rows of coupon_templates in one catalog
MaxTemplates == 2

\* the thresholds the admin console is taken to use
Thresholds == {60, 80}

\* a row of coupon_templates: a percentage discount for the lower tier, a
\* fixed amount for the higher
CouponTemplate(threshold, isActive) ==
    [name |-> <<"Tier", threshold>>,
     discountType |-> IF threshold < 80 THEN "percentage" ELSE "fixed",
     discountValue |-> IF threshold < 80 THEN "15" ELSE "50",
     currency |-> "AED", validityDays |-> 30,
     matchPercentageThreshold |-> threshold, isActive |-> isActive]

\* the coupon_templates tables the admin console can have set up
TemplateCatalogs ==
    UNION { [1..n -> {CouponTemplate(t, a) : t \in Thresholds, a \in BOOLEAN}] :
                n \in 0..MaxTemplates }

(* ------------------- voucher issuance, step by step -------------------- *)
\* results requests that found no voucher plus voucher rows
VouchersInFlight == BagCardinality(resultsCalls) + Len(vouchers)

\* GET /api/sessions/:code/results (latest routes) up to its last read, the
\* lookup of an existing voucher: a request that finds none goes on to
\* generateVoucher
ResultsGatedRead(sessionCode) ==
    /\ LET session == getGameSessionByCode(sessionCode)
           id == CHOOSE i \in session : TRUE
       IN  IF session = {}
           THEN /\ reply' = ResultsError(sessionCode, 404, "Session not found")
                /\ resultsCalls' = resultsCalls
           ELSE IF ~areAllAnswersSubmitted(id)
           THEN /\ reply' = ResultsError(sessionCode, 400,
                       "Not all participants have submitted their answers")
                /\ resultsCalls' = resultsCalls
           ELSE IF participantCount(id) # 2
           THEN /\ reply' = ResultsError(sessionCode, 404, "Results not available")
                /\ resultsCalls' = resultsCalls
           ELSE \E result \in MatchResultsAll(id) :
                    IF result.matchPercentage < VoucherGateLatest
                    THEN /\ reply' = ResultsReply(sessionCode, result, 0, "all")
                         /\ resultsCalls' = resultsCalls
                    ELSE IF getVoucherBySessionId(id) # {}
                    THEN /\ \E v \in getVoucherBySessionId(id) :
                                reply' = ResultsReply(sessionCode, result, v,
                                                      "all")
                         /\ resultsCalls' = resultsCalls
                    ELSE /\ VouchersInFlight < MaxVouchers
                         /\ resultsCalls' = resultsCalls (+) SetToBag({
                                [sessionCode |-> sessionCode, result |-> result]})
                         /\ reply' = NoReply
    /\ UNCHANGED <<gameSessions, sessionParticipants, joinCalls, submitCalls,
                   questions,
                   userAnswers, couponTemplates, vouchers>>

\* the generateVoucher call of such a request and the response
ResultsGatedGenerate(call) ==
    /\ BagIn(call, resultsCalls)
    /\ \E v \in generateVoucher(call.result.sessionId,
                                call.result.matchPercentage) :
           /\ vouchers' = Append(vouchers, v)
           /\ reply' = ResultsReply(call.sessionCode, call.result,
                                    Len(vouchers) + 1, "all")
    /\ resultsCalls' = resultsCalls (-) SetToBag({call})
    /\ UNCHANGED <<gameSessions, sessionParticipants, joinCalls, submitCalls,
                   questions,
                   userAnswers, couponTemplates>>

\* an UPDATE without the WHERE clause
markEveryVoucherAsDownloaded(voucherId) ==
    [v \in DOMAIN vouchers |-> [vouchers[v] EXCEPT !.downloaded = TRUE]]

\* storage.markVoucherAsDownloaded: UPDATE vouchers SET downloaded = true
\* WHERE id = voucherId
markVoucherAsDownloaded(voucherId) ==
    [v \in DOMAIN vouchers |->
        IF v = voucherId THEN [vouchers[v] EXCEPT !.downloaded = TRUE]
        ELSE vouchers[v]]

\* POST /api/vouchers/:id/download
DownloadVoucher(voucherId) ==
    /\ vouchers' = markVoucherAsDownloaded(voucherId)
    /\ reply' = [op |-> "download", voucherId |-> voucherId, status |-> 200]
    /\ UNCHANGED <<gameSessions, sessionParticipants, joinCalls, submitCalls, resultsCalls,
                   questions, userAnswers, couponTemplates>>

\* a session of two members who have both answered the one question of the
\* catalog, alike or not, over each coupon_templates table
InitVoucher ==
    /\ gameSessions = << [sessionCode |-> "AB12CD", completed |-> FALSE,
                          matchPercentage |-> Null] >>
    /\ sessionParticipants =
           SetToBag({[sessionId |-> 1, userId |-> u] : u \in {1, 2}})
    /\ joinCalls = EmptyBag
    /\ submitCalls = EmptyBag
    /\ resultsCalls = EmptyBag
    /\ questions = << QuestionRow(1, "common") >>
    /\ \E o \in {1, 2} :
           userAnswers = SetToBag({
               [userId |-> 1, sessionId |-> 1, questionId |-> 1,
                selectedOptionId |-> 1],
               [userId |-> 2, sessionId |-> 1, questionId |-> 1,
                selectedOptionId |-> o]})
    /\ couponTemplates \in TemplateCatalogs
    /\ vouchers = <<>>
    /\ reply = NoReply

ResultsCallSet ==
    [sessionCode : Codes, result : UNION {MatchResultsAll(id) : id \in DOMAIN gameSessions}]

NextVoucher ==
    \/ \E c \in Codes : ResultsGatedRead(c)
    \/ \E call \in ResultsCallSet : ResultsGatedGenerate(call)
    \/ \E v \in 1..MaxVouchers : DownloadVoucher(v)

SpecVoucher == InitVoucher /\ [][NextVoucher]_vars

(* ------------------- generateVoucher over its inputs ------------------- *)
\* the percentages generateVoucher is called with: the tier boundaries, their
\* neighbours and the ends of the range
Percentages == {0, 40, 59, 60, 75, 79, 80, 100}

\* gameService.generateVoucher(sessionId, matchPercentage); the reply keeps
\* the percentage it was called with and the id of the row it returned
GenerateVoucher(sessionId, matchPercentage) ==
    /\ Len(vouchers) < MaxVouchers
    /\ \E v \in generateVoucher(sessionId, matchPercentage) :
           vouchers' = Append(vouchers, v)
    /\ reply' = [op |-> "voucher", sessionId |-> sessionId,
                 matchPercentage |-> matchPercentage,
                 voucherId |-> Len(vouchers) + 1]
    /\ UNCHANGED <<gameSessions, sessionParticipants, joinCalls, submitCalls, resultsCalls,
                   questions, userAnswers, couponTemplates>>

\* one session, over each coupon_templates table
InitCoupon ==
    /\ gameSessions = << [sessionCode |-> "AB12CD", completed |-> FALSE,
                          matchPercentage |-> Null] >>
    /\ sessionParticipants = EmptyBag
    /\ joinCalls = EmptyBag
    /\ submitCalls = EmptyBag
    /\ resultsCalls = EmptyBag
    /\ questions = <<>>
    /\ userAnswers = EmptyBag
    /\ couponTemplates \in TemplateCatalogs
    /\ vouchers = <<>>
    /\ reply = NoReply

NextCoupon ==
    \E id \in DOMAIN gameSessions, p \in Percentages : GenerateVoucher(id, p)

SpecCoupon == InitCoupon /\ [][NextCoupon]_vars

(* ------------------ submissions with any payload ----------------------- *)
\* answers in the list of one request, payloads of any kind
MaxRequest == 2

\* the payloads a client can send: those of AnswerPayloads and one for a
\* question that is not (or no longer) in the catalog
RequestPayloads ==
    AnswerPayloads \cup {[questionId |-> Len(questions) + 1, optionId |-> 1]}

RequestLists == UNION {[1..n -> RequestPayloads] : n \in 0..MaxRequest}

\* a session of two members, over each question table; no answers yet
InitSubmit ==
    /\ gameSessions = << [sessionCode |-> "AB12CD", completed |-> FALSE,
                          matchPercentage |-> Null] >>
    /\ sessionParticipants =
           SetToBag({[sessionId |-> 1, userId |-> u] : u \in {1, 2}})
    /\ joinCalls = EmptyBag
    /\ submitCalls = EmptyBag
    /\ resultsCalls = EmptyBag
    /\ questions \in Catalogs
    /\ userAnswers = EmptyBag
    /\ couponTemplates = <<>>
    /\ vouchers = <<>>
    /\ reply = NoReply

NextSubmit ==
    \/ \E c \in Codes : SubmitAnswersUnknown(c)
    \/ \E u \in Users, c \in Codes, answers \in RequestLists :
           SubmitAnswers(u, c, answers)

SpecSubmit == InitSubmit /\ [][NextSubmit]_vars

(* --------------- the earliest calculateMatches over its inputs --------- *)
\* common questions in the catalog
MaxCommon == 6

\* a session of two members over a catalog of common questions only, each
\* answered by both: user 1 with the first option row, user 2 with the first
\* or the second (the insert does not check that an option belongs to the
\* question)
InitEarliest ==
    /\ gameSessions = << [sessionCode |-> "AB12CD", completed |-> FALSE,
                          matchPercentage |-> Null] >>
    /\ sessionParticipants =
           SetToBag({[sessionId |-> 1, userId |-> u] : u \in {1, 2}})
    /\ joinCalls = EmptyBag
    /\ submitCalls = EmptyBag
    /\ resultsCalls = EmptyBag
    /\ \E n \in 0..MaxCommon :
           /\ questions = [q \in 1..n |-> QuestionRow(q, "common")]
           /\ \E o \in [1..n -> {1, 2}] :
                  userAnswers = SetToBag(
                      {[userId |-> 1, sessionId |-> 1, questionId |-> q,
                        selectedOptionId |-> 1] : q \in 1..n}
                      \cup
                      {[userId |-> 2, sessionId |-> 1, questionId |-> q,
                        selectedOptionId |-> o[q]] : q \in 1..n})
    /\ couponTemplates = <<>>
    /\ vouchers = <<>>
    /\ reply = NoReply

NextEarliest == \E c \in Codes : ResultsEarliest(c)

SpecEarliest == InitEarliest /\ [][NextEarliest]_vars

(* ----------------- a game played through the client --------------------- *)
\* user_answers rows plus the answers of submitAnswers calls in flight
MaxGameAnswers == 4

\* the individual questions the game serves
ServedIndividualQuestions == 2

\* array.slice(0, k) of rows a query returned in any order: k of them, or all
\* when there are fewer
SliceOf(S, k) == {T \in SUBSET S : Cardinality(T) = Min(Cardinality(S), k)}

\* gameService.getSessionQuestions, as the sets of question ids it can serve
getSessionQuestions ==
    { c \cup i : c \in SliceOf(getQuestions("common"), ServedCommonQuestions),
                 i \in SliceOf(getQuestions("individual"),
                               ServedIndividualQuestions) }

\* the lists the client posts for the questions it was served: one answer
\* per question, an option of that question, in the order of the ids
RECURSIVE ServedLists(_)
ServedLists(served) ==
    IF served = {} THEN {<<>>}
    ELSE LET q == CHOOSE x \in served : \A y \in served : x <= y
         IN  { <<[questionId |-> q, optionId |-> o]>> \o rest :
                   o \in {x \in DOMAIN questionOptions :
                             questionOptions[x].questionId = q},
                   rest \in ServedLists(served \ {q}) }

RECURSIVE SumLen(_, _)
SumLen(B, calls) ==
    IF calls = {} THEN 0
    ELSE LET c == CHOOSE x \in calls : TRUE
         IN  CopiesIn(c, B) * Len(c.answers) + SumLen(B, calls \ {c})

\* user_answers rows plus the answers still to be saved
AnswersInFlight ==
    BagCardinality(userAnswers) + SumLen(submitCalls, BagToSet(submitCalls))

\* POST /api/sessions/:code/answers up to the loop of submitAnswers: the
\* session lookup
SubmitAnswersBegin(userId, sessionCode, answers) ==
    /\ getGameSessionByCode(sessionCode) # {}
    /\ AnswersInFlight + Len(answers) <= MaxGameAnswers
    /\ IF answers = <<>>
       THEN /\ submitCalls' = submitCalls
            /\ reply' = [op |-> "answers", status |-> 200, error |-> ""]
       ELSE /\ submitCalls' = submitCalls (+) SetToBag({
                    [userId |-> userId, sessionCode |-> sessionCode,
                     answers |-> answers]})
            /\ reply' = NoReply
    /\ UNCHANGED <<gameSessions, sessionParticipants, joinCalls, resultsCalls,
                   questions, userAnswers, couponTemplates, vouchers>>

\* one turn of the loop of submitAnswers: the awaited storage.saveUserAnswer
\* of the next answer; the response follows the last insert, or the first
\* one that throws
SaveUserAnswer(call) ==
    /\ BagIn(call, submitCalls)
    /\ LET answer == Head(call.answers)
           id == CHOOSE i \in getGameSessionByCode(call.sessionCode) : TRUE
       IN  IF ~foreignKeysHold(answer)
           THEN /\ userAnswers' = userAnswers
                /\ submitCalls' = submitCalls (-) SetToBag({call})
                /\ reply' = [op |-> "answers", status |-> 500,
                             error |-> "Failed to submit answers"]
           ELSE /\ userAnswers' = saveUserAnswers(userAnswers, call.userId, id,
                                                  <<answer>>)
                /\ IF Tail(call.answers) = <<>>
                   THEN /\ submitCalls' = submitCalls (-) SetToBag({call})
                        /\ reply' = [op |-> "answers", status |-> 200,
                                     error |-> ""]
                   ELSE /\ submitCalls' = (submitCalls (-) SetToBag({call}))
                               (+) SetToBag({[call EXCEPT
                                                 !.answers = Tail(call.answers)]})
                        /\ reply' = NoReply
    /\ UNCHANGED <<gameSessions, sessionParticipants, joinCalls, resultsCalls,
                   questions, couponTemplates, vouchers>>

\* the question tables of a game: a common and an individual question, two
\* common ones, and three individual ones (one more than the game serves)
GameCatalogs ==
    { << QuestionRow(1, "common"), QuestionRow(2, "individual") >>,
      << QuestionRow(1, "common"), QuestionRow(2, "common") >>,
      << QuestionRow(1, "individual"), QuestionRow(2, "individual"),
         QuestionRow(3, "individual") >> }

\* a session created and joined by two users; no answers yet
InitGame ==
    /\ gameSessions = << [sessionCode |-> "AB12CD", completed |-> FALSE,
                          matchPercentage |-> Null] >>
    /\ sessionParticipants =
           SetToBag({[sessionId |-> 1, userId |-> u] : u \in {1, 2}})
    /\ joinCalls = EmptyBag
    /\ submitCalls = EmptyBag
    /\ resultsCalls = EmptyBag
    /\ questions \in GameCatalogs
    /\ userAnswers = EmptyBag
    /\ couponTemplates = <<>>
    /\ vouchers = <<>>
    /\ reply = NoReply

SubmitCallSet ==
    [userId : Users, sessionCode : Codes,
     answers : UNION {UNION {{SubSeq(l, k, Len(l)) : k \in 1..Len(l)} :
                                 l \in ServedLists(served)} :
                          served \in getSessionQuestions}]

NextGame ==
    \/ \E u \in Users, c \in Codes, served \in getSessionQuestions :
           \E answers \in ServedLists(served) : SubmitAnswersBegin(u, c, answers)
    \/ \E call \in SubmitCallSet : SaveUserAnswer(call)
    \/ \E c \in Codes : ResultsStatus(c)
    \/ \E c \in Codes : Results(c)
    \/ \E c \in Codes : ResultsGated(c)

SpecGame == InitGame /\ [][NextGame]_vars

(* ---------------- calculateMatches over stored answers ----------------- *)
\* user_answers rows
MaxRows == 3

\* a calculateMatches that takes the requester for the first participant
calculateMatchesPerspective(sessionId, userId, p) ==
    MatchResultsAllIn(sessionId,
                      IF userId = p[2] THEN <<p[2], p[1]>> ELSE p)

\* gameService.calculateMatches(code, userId) as the latest results route
\* calls it: the function declares one parameter, so the requester is dropped
calculateMatchesFor(sessionId, userId, p) ==
    MatchResultsAllIn(sessionId, p)

\* calculateMatches returned null
NoMatches(sessionCode, userId, calculator) ==
    [op |-> "no-matches", sessionCode |-> sessionCode, userId |-> userId,
     calculator |-> calculator]

\* calculateMatches returned a MatchResult; userId (the requester) and first
\* (the participant storage listed first) are bookkeeping
Matches(sessionCode, userId, calculator, first, result) ==
    [op |-> "matches", sessionCode |-> sessionCode, userId |-> userId,
     calculator |-> calculator, first |-> first, results |-> result]

\* gameService.calculateMatches(code) (common questions only) for a results
\* request of userId: it stores the percentage and marks the session
\* completed
CalculateMatches(sessionCode, userId) ==
    /\ LET session == getGameSessionByCode(sessionCode)
           id == CHOOSE i \in session : TRUE
       IN  IF session = {} \/ participantCount(id) # 2
           THEN /\ reply' = NoMatches(sessionCode, userId, "common")
                /\ gameSessions' = gameSessions
           ELSE \E p \in ParticipantOrders(id) :
                \E result \in MatchResultsIn(id, p) :
                    /\ gameSessions' = concludeSession(id, result.matchPercentage)
                    /\ reply' = Matches(sessionCode, userId, "common", p[1],
                                        result)
    /\ UNCHANGED <<sessionParticipants, joinCalls, submitCalls, resultsCalls,
                   questions, userAnswers, couponTemplates, vouchers>>

\* gameService.calculateMatches(code, userId) (all-questions variant) for a
\* results request of userId
CalculateMatchesAll(sessionCode, userId) ==
    /\ LET session == getGameSessionByCode(sessionCode)
           id == CHOOSE i \in session : TRUE
       IN  IF session = {} \/ participantCount(id) # 2
           THEN reply' = NoMatches(sessionCode, userId, "all")
           ELSE \E p \in ParticipantOrders(id) :
                \E result \in calculateMatchesFor(id, userId, p) :
                    reply' = Matches(sessionCode, userId, "all", p[1], result)
    /\ UNCHANGED <<gameSessions, sessionParticipants, joinCalls, submitCalls,
                   resultsCalls, questions, userAnswers, couponTemplates,
                   vouchers>>

\* the two users who created and joined the session
Members == {1, 2}

\* the users who post answers for the session: its members and one user who
\* never joined it
Submitters == Members \cup {3}

\* a session of two members over each table of two questions; no answers yet
InitCalc ==
    /\ gameSessions = << [sessionCode |-> "AB12CD", completed |-> FALSE,
                          matchPercentage |-> Null] >>
    /\ sessionParticipants =
           SetToBag({[sessionId |-> 1, userId |-> u] : u \in Members})
    /\ joinCalls = EmptyBag
    /\ submitCalls = EmptyBag
    /\ resultsCalls = EmptyBag
    /\ questions \in {c \in Catalogs : Len(c) = 2}
    /\ userAnswers = EmptyBag
    /\ couponTemplates = <<>>
    /\ vouchers = <<>>
    /\ reply = NoReply

NextCalc ==
    \/ \E u \in Submitters, c \in Codes, answers \in AnswerLists :
           SubmitAnswersWithin(u, c, answers, MaxRows)
    \/ \E c \in Codes, u \in Members : CalculateMatches(c, u)
    \/ \E c \in Codes, u \in Members : CalculateMatchesAll(c, u)

SpecCalc == InitCalc /\ [][NextCalc]_vars

(* ---------------------- claims: session registry ----------------------- *)
SessionIds == DOMAIN gameSessions

\* C1: in every reachable state, under any interleaving of joinSession calls
\* (a participant read followed by a separate insert), a session has at most
\* 2 membership rows.
C1_AtMostTwoParticipants ==
    \A id \in SessionIds : participantCount(id) <= 2

C3_FullSessionRejects ==
    [][\A u \in Users, c \in Codes :
          ( /\ \E id \in getGameSessionByCode(c) :
                   /\ Cardinality(getSessionParticipants(id)) >= 2
                   /\ u \notin getSessionParticipants(id)
            /\ JoinRequest(u, c) )
          => /\ reply'.op = "join" /\ reply'.status = 404
             /\ sessionParticipants' = sessionParticipants
             /\ joinCalls' = joinCalls]_vars

\* a third participant's join request to a session with 2 members was refused
C3_Witness ==
    /\ reply.op = "join" /\ reply.status = 404
    /\ \E id \in getGameSessionByCode(reply.sessionCode) :
           /\ Cardinality(getSessionParticipants(id)) = 2
           /\ reply.userId \notin getSessionParticipants(id)

\* what a caller of the join route can observe of a joinSession call
JoinOutcome(sessionCode, userId) ==
    [returned |-> joinSession(sessionCode, userId),
     response |-> JoinResponse(joinSession(sessionCode, userId) = "true")]

\* C4: joinSession with a code that matches no session fails without an
\* insert, and its outcome differs from the outcome of a join that is refused
\* because the session is full.
C4_NotFoundDistinguishable ==
    \A u \in Users, c1 \in Codes, c2 \in Codes :
        ( /\ getGameSessionByCode(c1) = {}
          /\ \E id \in getGameSessionByCode(c2) :
                 /\ participantCount(id) >= 2
                 /\ u \notin getSessionParticipants(id) )
        => /\ joinSession(c1, u) = "false"
           /\ JoinOutcome(c1, u) # JoinOutcome(c2, u)

(* ------------------- claims: readiness and matching -------------------- *)
\* the questions for which the session holds a row of every participant
bothAnswered(sessionId) ==
    {q \in DOMAIN questions :
        \A u \in getSessionParticipants(sessionId) :
            \E r \in getSessionAnswers(sessionId) :
                r.userId = u /\ r.questionId = q}

\* C5: isSessionReady(code) is true iff the session with that code exists and
\* has exactly 2 members, whatever answers are stored; the status route
\* reports that value.
C5_ReadyIffTwoMembers ==
    /\ \A c \in Codes :
           isSessionReady(c) <=>
               \E id \in getGameSessionByCode(c) :
                   Cardinality(getSessionParticipants(id)) = 2
    /\ reply.op = "status" =>
           (reply.ready <=>
               \E id \in getGameSessionByCode(reply.sessionCode) :
                   Cardinality(getSessionParticipants(id)) = 2)

\* the status route reported a session ready that holds no answer
C5_Witness ==
    /\ reply.op = "status" /\ reply.ready
    /\ userAnswers = EmptyBag

\* C6: areAllAnswersSubmitted(sessionId) is true iff the session has exactly
\* 2 members and each member has at least as many answer rows for the session
\* as the catalog has questions.
C6_AllSubmittedIffMembersAnswered ==
    \A id \in SessionIds :
        areAllAnswersSubmitted(id) <=>
            /\ Cardinality(getSessionParticipants(id)) = 2
            /\ \A u \in getSessionParticipants(id) :
                   answerCount(id, u) >= Cardinality(getAllQuestions)

\* the members of the session who have submitted
submittedMembers(sessionId) ==
    {u \in getSessionParticipants(sessionId) :
        hasUserSubmittedAnswers(sessionId, u)}

\* C7: a session with only 1 member, or with 2 members of whom only 1 has
\* submitted, gets no MatchResult and is not marked concluded: completed stays
\* false and the stored matchPercentage stays unset.
C7_NotReadyGating ==
    \A id \in SessionIds :
        ( \/ Cardinality(getSessionParticipants(id)) = 1
          \/ /\ Cardinality(getSessionParticipants(id)) = 2
             /\ Cardinality(submittedMembers(id)) = 1 )
        => /\ ~gameSessions[id].completed
           /\ gameSessions[id].matchPercentage = Null
           /\ ~( /\ reply.op = "results" /\ reply.status = 200
                 /\ reply.results.sessionId = id )

\* C8: the matchPercentage of a MatchResult is round(matchCount / N * 100),
\* N the number of questions both participants answered and matchCount the
\* number of those on which the two answer texts are equal.
C8_PercentageOverBothAnswered ==
    ( /\ reply.op = "results" /\ reply.status = 200
      /\ reply.calculator \in {"common", "all"}
      /\ bothAnswered(reply.results.sessionId) # {} )
    => LET id == reply.results.sessionId
       IN  \E p \in ParticipantOrders(id) :
           \E m1 \in AnswerMaps(id, p[1], bothAnswered(id)) :
           \E m2 \in AnswerMaps(id, p[2], bothAnswered(id)) :
               reply.results.matchPercentage =
                   MathRound(Cardinality({q \in bothAnswered(id) :
                                 answerText(m1[q]) = answerText(m2[q])}),
                             Cardinality(bothAnswered(id)))

\* C9: when the two participants of a 2-member session share no answered
\* question, a results request that reaches calculateMatches is answered with
\* matchPercentage 0 and empty lists, not with an error.
C9_ZeroSharedIsZero ==
    ( /\ reply.op = "results" /\ reply.status # 400
      /\ \E id \in getGameSessionByCode(reply.sessionCode) :
             /\ participantCount(id) = 2
             /\ bothAnswered(id) = {} )
    => /\ reply.status = 200
       /\ reply.results.matchPercentage = 0
       /\ reply.results.matchingAnswers = <<>>
       /\ reply.calculator # "earliest"
              => reply.results.nonMatchingAnswers = <<>>

\* C10: two results requests in a row for the same session, served by the
\* same calculateMatches over the same memberships and answers, get the same
\* MatchResult.
C10_SameResultTwice ==
    [][( /\ reply.op = "results" /\ reply.status = 200
         /\ reply'.op = "results" /\ reply'.status = 200
         /\ reply'.sessionCode = reply.sessionCode
         /\ reply'.calculator = reply.calculator
         /\ sessionParticipants' = sessionParticipants
         /\ userAnswers' = userAnswers )
       => reply'.results = reply.results]_vars

(* -------------------------- claims: vouchers --------------------------- *)
\* a 200 response of a results request for the code that carries a voucher
carriesVoucher(r, sessionCode) ==
    /\ r.op = "results" /\ r.status = 200
    /\ r.sessionCode = sessionCode
    /\ r.voucherId # 0

\* C11: a results request served by server/routes.ts never leaves a session
\* that had at most one voucher row with two, and two such requests in a row
\* for the same session that both carry a voucher carry the same voucher code.
C11_OneVoucherPerSession ==
    [][\A c \in Codes :
          (reply'.op = "results" /\ Results(c))
          => \A id \in getGameSessionByCode(c) :
                 /\ Cardinality(getVoucherBySessionId(id)) <= 1
                        => Cardinality(getVoucherBySessionId(id)') <= 1
                 /\ (carriesVoucher(reply, c) /\ carriesVoucher(reply', c))
                        => vouchers'[reply'.voucherId].voucherCode
                               = vouchers[reply.voucherId].voucherCode]_vars

\* the vouchers of a session, as a count of rows
voucherCount(sessionId) == Cardinality(getVoucherBySessionId(sessionId))

\* C12: once the results requests that were issuing a voucher for a session
\* at the same time have finished, the session has exactly one voucher row.
C12_OneVoucherAfterConcurrentIssue ==
    resultsCalls = EmptyBag
    => \A id \in DOMAIN gameSessions :
           /\ voucherCount(id) <= 1
           /\ carriesVoucher(reply, gameSessions[id].sessionCode)
                  => voucherCount(id) = 1

\* the templates that qualify for a percentage: active, threshold reached
qualifying(matchPercentage) ==
    {t \in DOMAIN couponTemplates :
        /\ couponTemplates[t].isActive = TRUE
        /\ couponTemplates[t].matchPercentageThreshold <= matchPercentage}

\* the voucher is the one generateVoucher fills in from template t
filledFrom(voucher, t) ==
    /\ voucher.voucherType = couponTemplates[t].name
    /\ voucher.validity = <<couponTemplates[t].validityDays, "days">>
    /\ voucher.discount =
           IF couponTemplates[t].discountType = "percentage"
           THEN <<couponTemplates[t].discountValue, "% OFF">>
           ELSE <<couponTemplates[t].currency,
                  couponTemplates[t].discountValue, "OFF">>

C14_BuiltInTiers ==
    reply.op = "voucher"
    => LET voucher == vouchers[reply.voucherId]
           p == reply.matchPercentage
       IN  /\ voucher.voucherType = "COUPLE'S DINNER" <=> qualifying(p) = {}
           /\ qualifying(p) = {} =>
                  /\ p >= 80 => voucher.discount = <<"30", "% OFF">>
                  /\ (p >= 60 /\ p < 80) => voucher.discount = <<"20", "% OFF">>
                  /\ p < 60 => voucher.discount = <<"10", "% OFF">>

\* a built-in voucher was generated at 80 although the catalog has templates,
\* none of which qualifies
C14_Witness ==
    /\ reply.op = "voucher" /\ reply.matchPercentage = 80
    /\ couponTemplates # <<>>
    /\ vouchers[reply.voucherId].voucherType = "COUPLE'S DINNER"
    /\ vouchers[reply.voucherId].discount = <<"30", "% OFF">>

(* ----------------------- claims: concluding ---------------------------- *)
\* C15: after a results request that returned a MatchResult, the session is
\* marked completed and its stored matchPercentage is the percentage of the
\* MatchResult.
C15_ConcludedAfterResults ==
    (reply.op = "results" /\ reply.status = 200)
    => /\ gameSessions[reply.results.sessionId].completed
       /\ gameSessions[reply.results.sessionId].matchPercentage
              = reply.results.matchPercentage

\* C16: every voucher row belongs to a session that is marked completed.
C16_VoucherOnlyForConcluded ==
    \A v \in DOMAIN vouchers : gameSessions[vouchers[v].sessionId].completed

(* ------------------------- claims: answers ----------------------------- *)
\* C17: user_answers holds at most one row per (participant, session,
\* question), also after a repeated submission by the same participant.
C17_OneAnswerPerQuestion ==
    \A r1, r2 \in BagToSet(userAnswers) :
        /\ CopiesIn(r1, userAnswers) = 1
        /\ ( /\ r1.userId = r2.userId
             /\ r1.sessionId = r2.sessionId
             /\ r1.questionId = r2.questionId ) => r1 = r2

\* C18: a submitAnswers request that fails leaves no answer row of its list
\* behind and changes no session.
C18_FailedSubmitChangesNothing ==
    [][(reply'.op = "answers" /\ reply'.status # 200)
       => /\ userAnswers' = userAnswers
          /\ gameSessions' = gameSessions]_vars

otherFields(voucher) == [voucher EXCEPT !.downloaded = FALSE]

\* C20: a download request for a voucher sets downloaded on that row,
\* changes no other row and no other field, changes nothing when the row is
\* already downloaded, and no step of any handler removes a voucher or resets
\* its downloaded flag.
C20_DownloadIdempotent ==
    [][/\ \A v \in DOMAIN vouchers :
              /\ v \in DOMAIN vouchers'
              /\ vouchers[v].downloaded => vouchers'[v].downloaded
       /\ \A id \in 1..MaxVouchers :
              (reply'.op = "download" /\ DownloadVoucher(id))
              => /\ DOMAIN vouchers' = DOMAIN vouchers
                 /\ id \in DOMAIN vouchers => vouchers'[id].downloaded
                 /\ \A v \in DOMAIN vouchers :
                        /\ v # id => vouchers'[v] = vouchers[v]
                        /\ otherFields(vouchers'[v]) = otherFields(vouchers[v])
                 /\ (id \in DOMAIN vouchers /\ vouchers[id].downloaded)
                        => vouchers' = vouchers
                 /\ UNCHANGED <<gameSessions, sessionParticipants, userAnswers,
                                couponTemplates>>]_vars

\* a download request marked one voucher while another one stays unmarked
C20_Witness ==
    /\ reply.op = "download"
    /\ reply.voucherId \in DOMAIN vouchers
    /\ vouchers[reply.voucherId].downloaded
    /\ \E v \in DOMAIN vouchers : ~vouchers[v].downloaded

(* ------------------------ claims: a whole game ------------------------- *)
\* the user has a row in the session for every question of the set
answeredEach(sessionId, userId, questionIds) ==
    \A q \in questionIds : \E r \in getSessionAnswers(sessionId) :
        r.userId = userId /\ r.questionId = q

\* the session has two members, each has answered every question of a set
\* the game serves, and no submission is in flight
gameComplete(sessionId) ==
    /\ submitCalls = EmptyBag
    /\ Cardinality(getSessionParticipants(sessionId)) = 2
    /\ participantCount(sessionId) = 2
    /\ \A u \in getSessionParticipants(sessionId) :
           \E served \in getSessionQuestions : answeredEach(sessionId, u, served)

\* the members' answers to each common question have the same text
commonIdentical(sessionId) ==
    \A r1, r2 \in getSessionAnswers(sessionId) :
        ( /\ r1.questionId = r2.questionId
          /\ r1.questionId \in getQuestions("common")
          /\ {r1.userId, r2.userId} \subseteq getSessionParticipants(sessionId) )
        => answerText(r1.selectedOptionId) = answerText(r2.selectedOptionId)

\* C21: once two members have each answered every question the game served
\* them, areAllAnswersSubmitted holds, and a results request gets a
\* MatchResult and leaves the session concluded, with percentage 100 and no
\* non-matching entry when the common answers are identical.
C21_CompleteGameConcludes ==
    \A id \in SessionIds :
        gameComplete(id)
        => /\ areAllAnswersSubmitted(id)
           /\ (reply.op = "results"
                   /\ reply.sessionCode = gameSessions[id].sessionCode)
              => /\ reply.status = 200
                 /\ gameSessions[id].completed
                 /\ commonIdentical(id)
                        => /\ reply.results.matchPercentage = 100
                           /\ reply.results.nonMatchingAnswers = <<>>

(* ----------------------- claims: the match lists ----------------------- *)
\* the questions a calculateMatches compares: the common ones for the
\* common-only variant, every question for the all-questions variant
comparedQuestions(calculator) ==
    IF calculator = "common" THEN getQuestions("common") ELSE getAllQuestions

\* the answer texts the user has stored for the question in the session
answerTexts(sessionId, userId, questionId) ==
    { answerText(r.selectedOptionId) :
        r \in {x \in getSessionAnswers(sessionId) :
                  x.userId = userId /\ x.questionId = questionId} }

\* the compared questions that both members of the session have answered
comparedByBoth(sessionId, calculator) ==
    {q \in comparedQuestions(calculator) :
        \A u \in getSessionParticipants(sessionId) :
            answerTexts(sessionId, u, q) # {}}

\* the member of the session who is not first
partnerOf(sessionId, first) ==
    CHOOSE u \in getSessionParticipants(sessionId) : u # first

listedQuestions(list) == {list[i].question : i \in DOMAIN list}

halfSubmitted(sessionId) ==
    \E call \in BagToSet(submitCalls) :
        /\ call.userId \in getSessionParticipants(sessionId)
        /\ sessionId \in getGameSessionByCode(call.sessionCode)

\* C23: while a participant's submitAnswers is still saving the rows of its
\* list, a results request for the session returns no MatchResult, does not
\* mark the session completed and adds no voucher.
C23_NoResultFromHalfSubmitted ==
    [][\A id \in SessionIds :
          halfSubmitted(id)
          => /\ ~( /\ reply'.op = "results" /\ reply'.status = 200
                   /\ reply'.sessionCode = gameSessions[id].sessionCode )
             /\ gameSessions'[id] = gameSessions[id]
             /\ getVoucherBySessionId(id)' = getVoucherBySessionId(id)]_vars

(* ---------------------- claims: voucher inserts ------------------------ *)
\* C24: a createVoucher for a session that already has a voucher fails: the
\* call returns no voucher, the rows the session has are left as they are
\* and no row is added to them.
C24_DuplicateVoucherRejected ==
    [][\A id \in SessionIds :
          getVoucherBySessionId(id) # {}
          => /\ getVoucherBySessionId(id)' = getVoucherBySessionId(id)
             /\ \A v \in getVoucherBySessionId(id) : vouchers'[v] = vouchers[v]
             /\ ~(reply'.op = "voucher" /\ reply'.sessionId = id)]_vars

(* ------------------- claims: the decision to issue --------------------- *)
\* the gate of the results handler that ran calculator
gateOf(calculator) ==
    IF calculator = "all" THEN VoucherGateLatest ELSE VoucherGate

C26_ReadinessStable ==
    [][\A c \in Codes : isSessionReady(c) => isSessionReady(c)']_vars

(* --------------------- claims: the two participants -------------------- *)
\* the MatchResults the calculator can return with the participants in order p
resultsOf(calculator, sessionId, p) ==
    IF calculator = "common" THEN MatchResultsIn(sessionId, p)
    ELSE MatchResultsAllIn(sessionId, p)

\* the entries of a nonMatchingAnswers list with the two labels exchanged
exchanged(list) ==
    { [question |-> list[i].question, yourAnswer |-> list[i].partnerAnswer,
       partnerAnswer |-> list[i].yourAnswer] : i \in DOMAIN list }

entries(list) == {list[i] : i \in DOMAIN list}

\* C27: for every MatchResult computed with one participant first, the same
\* stored answers with the other participant first give a MatchResult of the
\* same matchPercentage and the same matching entries, whose non-matching
\* entries differ only in yourAnswer and partnerAnswer being exchanged.
C27_SymmetricInParticipants ==
    reply.op = "matches"
    => LET id == reply.results.sessionId
       IN  \E r \in resultsOf(reply.calculator, id,
                              <<partnerOf(id, reply.first), reply.first>>) :
               /\ r.matchPercentage = reply.results.matchPercentage
               /\ entries(r.matchingAnswers)
                      = entries(reply.results.matchingAnswers)
               /\ entries(r.nonMatchingAnswers)
                      = exchanged(reply.results.nonMatchingAnswers)

memberAnswers(sessionId) ==
    [r \in {x \in getSessionAnswers(sessionId) :
               x.userId \in getSessionParticipants(sessionId)}
        |-> CopiesIn(r, userAnswers)]

\* C29: a submission that adds rows of users who are not members of the
\* session, and none of a member, leaves the MatchResults calculateMatches
\* can return for the session as they were, for both variants.
C29_OutsiderRowsIgnored ==
    [][\A id \in SessionIds :
          ( /\ userAnswers' # userAnswers
            /\ memberAnswers(id)' = memberAnswers(id) )
          => /\ MatchResults(id)' = MatchResults(id)
             /\ MatchResultsAll(id)' = MatchResultsAll(id)]_vars

\* a MatchResult with a matching entry was computed while a user who is not
\* a member had a different answer stored for that question
C29_Witness ==
    /\ reply.op = "matches"
    /\ \E i \in DOMAIN reply.results.matchingAnswers :
       \E r \in getSessionAnswers(reply.results.sessionId) :
           /\ r.userId \notin getSessionParticipants(reply.results.sessionId)
           /\ questionText(r.questionId)
                  = reply.results.matchingAnswers[i].question
           /\ answerText(r.selectedOptionId)
                  # reply.results.matchingAnswers[i].answer

====
